---- MODULE Spec2Model ----
(***************************************************************************)
(* Model of the notebook law-of-the-wall.ipynb: a Jupyter kernel whose     *)
(* global namespace is filled by running the notebook's code cells, in any *)
(* order and any number of times, and in which the function loglayer can   *)
(* be called once its cell has run.                                        *)
(*                                                                         *)
(* Numbers are fixed point: heights, roughness lengths and friction        *)
(* velocities are integers; the observed velocities of the data cell are   *)
(* in tenths of cm/s (41.8 is 418); logarithms and modelled velocities are *)
(* in units of 1/10000.                                                    *)
(***************************************************************************)
EXTENDS Integers, Sequences, FiniteSets

VARIABLES
    ns,       \* names bound in the kernel's global namespace
    df,       \* the value bound to df (NoFrame until the data cell has run)
    fit,      \* what the exercise c cell (the curve_fit call) has produced
    call,     \* the latest call of loglayer: its arguments and its outcome
    out       \* the cell run last and the error it ended in

vars == <<ns, df, fit, call, out>>

\* ---------------------------------------------------------------- bounds

MaxLen == 2      \* longest array of heights passed to loglayer
MaxHeight == 2   \* heights z are drawn from 0..MaxHeight
MaxZo == 1       \* roughness lengths zo are drawn from 0..MaxZo
MaxUstar == 1    \* friction velocities ustar are drawn from -1..MaxUstar

Heights == 0..MaxHeight
Roughness == 0..MaxZo
Ustars == -1..MaxUstar
HeightArrays == UNION {[1..n -> Heights] : n \in 1..MaxLen}

\* ------------------------------------------------- the documented model

\* The 0.41 of the equation, in hundredths.
KappaHundredths == 41

RECURSIVE Log2Floor(_)
Log2Floor(n) == IF n < 2 THEN 0 ELSE 1 + Log2Floor(n \div 2)

\* 10000 * ln(n) for an integer n >= 1: n = 2^k * m with 1 <= m < 2,
\* ln(m) = 2 * atanh((m - 1) / (m + 1)) by its series up to the 7th power.
LnFix(n) ==
    LET S == 10000
        Ln2 == 6931
        k == Log2Floor(n)
        p == 2 ^ k
        x == ((n - p) * S) \div (n + p)
        x2 == (x * x) \div S
        x3 == (x * x2) \div S
        x5 == (x3 * x2) \div S
        x7 == (x5 * x2) \div S
    IN  k * Ln2 + 2 * (x + x3 \div 3 + x5 \div 5 + x7 \div 7)

\* Where ln(z / zo) is defined.
LogDomain(z, zo) == z > 0 /\ zo > 0

\* u = (ustar / 0.41) * ln(z / zo) at one height, in 1/10000, rounded down;
\* "nan" outside the logarithm's domain.
LawOfTheWall(z, ustar, zo) ==
    IF ~LogDomain(z, zo)
    THEN "nan"
    ELSE (ustar * 100 * (LnFix(z) - LnFix(zo))) \div KappaHundredths

\* ------------------------------------------------------------ the kernel

\* Names Python finds in builtins when neither scope binds them.
Builtins == {"abs", "len", "max", "min", "print", "range", "sum"}

\* Python's name lookup inside a function body: local, global, builtin.
Resolve(name, locals, globals) ==
    IF name \in locals THEN "local"
    ELSE IF name \in globals THEN "global"
    ELSE IF name \in Builtins THEN "builtin"
    ELSE "NameError"

NoFrame == [index |-> 0, cols |-> {}, z |-> <<>>, u |-> <<>>]
NoFit == [kind |-> "none"]
NoCall == [kind |-> "none"]
NoOut == [cell |-> "none", error |-> "none"]

\* import numpy as np ... from scipy.optimize import curve_fit
ImportNames == {"np", "plt", "pd", "stats", "curve_fit"}

ImportsCell(globals) == globals \cup ImportNames

\* The heights with the first one mistyped as 0.
ObservedZ_ZeroHeight == <<0, 55, 89, 123>>

\* The two arrays of the data cell; velocities in tenths of cm/s.
ObservedZ == <<22, 55, 89, 123>>

ObservedU == <<418, 504, 550, 584>>

\* frame[name] = values: the first column of an empty frame sets its index,
\* a later column must have the index's length.
AssignColumn(frame, name, values) ==
    IF frame.cols = {}
    THEN [ok |-> TRUE,
          frame |-> [frame EXCEPT !.index = Len(values),
                                  !.cols = {name},
                                  ![name] = values]]
    ELSE IF Len(values) # frame.index
    THEN [ok |-> FALSE, frame |-> frame]
    ELSE [ok |-> TRUE,
          frame |-> [frame EXCEPT !.cols = @ \cup {name}, ![name] = values]]

\* df = pd.DataFrame(); df['z(cm)'] = np.array([...]); df['u(cm/s)'] = ...
DataCell(globals, frame) ==
    IF Resolve("pd", {}, globals) = "NameError"
    THEN [ns |-> globals, df |-> frame, error |-> "NameError: pd"]
    ELSE LET bound == globals \cup {"df"}
             a == AssignColumn(NoFrame, "z", ObservedZ)
             b == AssignColumn(a.frame, "u", ObservedU)
         IN  IF Resolve("np", {}, bound) = "NameError"
             THEN [ns |-> bound, df |-> NoFrame, error |-> "NameError: np"]
             ELSE IF ~a.ok
             THEN [ns |-> bound, df |-> a.frame, error |-> "ValueError"]
             ELSE IF ~b.ok
             THEN [ns |-> bound, df |-> b.frame, error |-> "ValueError"]
             ELSE [ns |-> bound, df |-> b.frame, error |-> "none"]

\* The cell that holds the expression df.
ShowCell(globals) ==
    IF Resolve("df", {}, globals) = "NameError"
    THEN "NameError: df"
    ELSE "none"

\* The cell that holds def loglayer(z, ustar, zo): it binds the name.
LoglayerCell(globals) == globals \cup {"loglayer"}

\* A body that assigns u from the documented equation before returning it.
LoglayerBody_Implemented(z, ustar, zo, globals) ==
    [kind |-> "value",
     u |-> [i \in 1..Len(z) |-> LawOfTheWall(z[i], ustar, zo)]]

\* The body of loglayer: a docstring, a comment and `return u`.
LoglayerBody(z, ustar, zo, globals) ==
    LET scope == Resolve("u", {"z", "ustar", "zo"}, globals)
    IN  IF scope = "NameError"
        THEN [kind |-> "NameError", name |-> "u"]
        ELSE [kind |-> "object", name |-> "u", scope |-> scope]

\* A cell that reorders the loaded observations in place.
EmptyCell_Reordering(globals, frame, result) ==
    [ns |-> globals,
     df |-> [frame EXCEPT !.z = [i \in 1..Len(@) |-> @[Len(@) + 1 - i]]],
     fit |-> result]

\* The cells of exercises a, c, d and e hold no statement.
EmptyCell(globals, frame, result) ==
    [ns |-> globals, df |-> frame, fit |-> result]

\* ------------------------------------------------------------- actions

RunImports ==
    /\ ns' = ImportsCell(ns)
    /\ out' = [cell |-> "imports", error |-> "none"]
    /\ UNCHANGED <<df, fit, call>>

RunData ==
    LET r == DataCell(ns, df)
    IN  /\ ns' = r.ns
        /\ df' = r.df
        /\ out' = [cell |-> "data", error |-> r.error]
        /\ UNCHANGED <<fit, call>>

RunShow ==
    /\ out' = [cell |-> "show", error |-> ShowCell(ns)]
    /\ UNCHANGED <<ns, df, fit, call>>

RunLoglayerDef ==
    /\ ns' = LoglayerCell(ns)
    /\ out' = [cell |-> "loglayer_def", error |-> "none"]
    /\ UNCHANGED <<df, fit, call>>

RunExerciseC ==
    LET r == EmptyCell(ns, df, fit)
    IN  /\ ns' = r.ns
        /\ df' = r.df
        /\ fit' = r.fit
        /\ out' = [cell |-> "exercise_c", error |-> "none"]
        /\ UNCHANGED call

RunOtherExercise ==
    \E c \in {"exercise_a", "exercise_d", "exercise_e"} :
        LET r == EmptyCell(ns, df, fit)
        IN  /\ ns' = r.ns
            /\ df' = r.df
            /\ fit' = r.fit
            /\ out' = [cell |-> c, error |-> "none"]
            /\ UNCHANGED call

\* loglayer(z, ustar, zo), once the name is bound.
CallLoglayer ==
    \E z \in HeightArrays, ustar \in Ustars, zo \in Roughness :
        /\ "loglayer" \in ns
        /\ call' = [kind |-> "loglayer", z |-> z, ustar |-> ustar, zo |-> zo,
                    result |-> LoglayerBody(z, ustar, zo, ns)]
        /\ out' = [cell |-> "call", error |-> call'.result.kind]
        /\ UNCHANGED <<ns, df, fit>>

Init ==
    /\ ns = {}
    /\ df = NoFrame
    /\ fit = NoFit
    /\ call = NoCall
    /\ out = NoOut

Next ==
    \/ RunImports
    \/ RunData
    \/ RunShow
    \/ RunLoglayerDef
    \/ RunExerciseC
    \/ RunOtherExercise
    \/ CallLoglayer

Spec == Init /\ [][Next]_vars

\* ------------------------------------------------------------- claims

Abs(x) == IF x < 0 THEN -x ELSE x

Loaded == df.cols = {"z", "u"}

\* The latest loglayer call was inside the model's domain: every height
\* and the roughness length positive.
CallInDomain ==
    /\ call.kind = "loglayer"
    /\ \A i \in 1..Len(call.z) : LogDomain(call.z[i], call.zo)

\* C1: for every height z > 0, every ustar and every zo > 0, loglayer
\* returns (ustar / 0.41) * ln(z / zo), one velocity per input height.
C1_ReturnsLawOfTheWall ==
    CallInDomain =>
        /\ call.result.kind = "value"
        /\ call.result.u = [i \in 1..Len(call.z) |->
                               LawOfTheWall(call.z[i], call.ustar, call.zo)]

\* C2: evaluated at the height z = zo, with zo > 0, loglayer returns
\* exactly zero for any ustar.
C2_ZeroAtRoughnessLength ==
    (CallInDomain /\ call.z = <<call.zo>>) =>
        /\ call.result.kind = "value"
        /\ call.result.u = <<0>>

\* C3: for all ustar and zo > 0, and any two heights 0 < z1 < z2 of one
\* call, the velocity returned for z1 is below the one returned for z2.
C3_IncreasingInHeight ==
    (CallInDomain /\ \E i, j \in 1..Len(call.z) : call.z[i] < call.z[j]) =>
        /\ call.result.kind = "value"
        /\ \A i, j \in 1..Len(call.z) :
               call.z[i] < call.z[j] => call.result.u[i] < call.result.u[j]

\* C6: round trip: observations generated by loglayer at several heights
\* z_i > 0 from known (ustar, zo), zo > 0, and then fitted by the exercise c
\* cell, give estimates within relative error 1e-6 of (ustar, zo). The
\* estimates are in units of 1/1000000.
C6_RoundTripRecovers ==
    (CallInDomain /\ Len(call.z) >= 2 /\ out.cell = "exercise_c") =>
        /\ call.result.kind = "value"
        /\ fit.kind = "estimate"
        /\ Abs(fit.u_star - 1000000 * call.ustar) < Abs(call.ustar)
        /\ Abs(fit.z_o - 1000000 * call.zo) < Abs(call.zo)

\* The hand-derived reference values of exercise e, 3.98 cm/s and 0.30 cm,
\* in units of 1/1000000.
RefUstarMicro == 3980000

RefZoMicro == 300000

\* C7: fitting the loaded observations gives estimates of ustar and zo that
\* each lie within a few (three) of their own standard errors of the
\* hand-derived reference values.
C7_FitNearHandDerived ==
    (out.cell = "exercise_c" /\ Loaded /\ {"curve_fit", "loglayer"} \subseteq ns) =>
        /\ fit.kind = "estimate"
        /\ Abs(fit.u_star - RefUstarMicro) <= 3 * fit.se_u_star
        /\ Abs(fit.z_o - RefZoMicro) <= 3 * fit.se_z_o

C9_ObservationsMeetPreconditions ==
    "df" \in ns =>
        /\ Loaded
        /\ Len(df.z) = 4 /\ Len(df.u) = 4 /\ df.index = 4
        /\ Len(df.z) >= 2
        /\ \A i \in 1..Len(df.z) :
               /\ df.z[i] > 0
               /\ \A zo \in Roughness : zo > 0 => LogDomain(df.z[i], zo)

C9_DataShown ==
    /\ "df" \in ns
    /\ out = [cell |-> "show", error |-> "none"]

\* C10: as shipped, every call of loglayer ends in the NameError of the
\* unassigned name u and never returns a velocity, and no run of the
\* exercise c cell ever produces a fit result.
C10_Placeholders ==
    /\ call.kind = "loglayer" => call.result = [kind |-> "NameError", name |-> "u"]
    /\ fit = NoFit

C10_CalledAndFitCellRun ==
    /\ CallInDomain
    /\ Len(call.z) = 2
    /\ out.cell = "exercise_c"

====
